---- MODULE Spec2Model ----
(***************************************************************************)
(* The two calculators of rdo-adan/Calculator:                              *)
(*   src/Python/main_interface_flet.py     class CalculatorApp, on_keyboard *)
(*   src/Python/main_interface_tkinter.py  class Calculator                 *)
(* Both accumulate an expression string and hand it to Python's eval() on  *)
(* "=".  A Python str is modelled as a sequence of one-character strings.   *)
(***************************************************************************)
EXTENDS Integers, Sequences, FiniteSets, TLC

(***************************************************************************)
(* Bounds of the model.                                                     *)
(*   MaxLen   longest expression that characters are appended to make      *)
(*   MaxLenTk the same for the tkinter program run alone, which has seven   *)
(*            character buttons in the model against ten                    *)
(*   MaxChain most results that may be continued, one after the other, by  *)
(*            appending to them before the expression is cleared            *)
(*   MaxInt   largest numerator or denominator the numeric model carries;   *)
(*            an evaluation that needs more is outside the model and "="    *)
(*            is not taken on such an expression                            *)
(***************************************************************************)
MaxLen == 3
MaxLenTk == 4
MaxChain == 1
MaxInt == 1000000000

\* DBL_MAX_EXP of the doubles behind Python's float: 2^1024 is past the largest
DBL_MAX_EXP == 1024

(***************************************************************************)
(* Characters and strings                                                   *)
(***************************************************************************)
DigitChars == <<"0", "1", "2", "3", "4", "5", "6", "7", "8", "9">>

IsDigit(c) == \E d \in 1..10 : DigitChars[d] = c

DigitVal(c) == (CHOOSE d \in 1..10 : DigitChars[d] = c) - 1

Letters == {"E", "l", "i", "p", "s", "n", "f"}

IsLetter(c) == c \in Letters

Str0 == <<"0">>

StrError == <<"E", "r", "r", "o", "r">>

StrEllipsis == <<"E", "l", "l", "i", "p", "s", "i", "s">>

StrInf == <<"i", "n", "f">>

StrEnter == <<"E", "n", "t", "e", "r">>

StrBackspace == <<"B", "a", "c", "k", "s", "p", "a", "c", "e">>

StrDelete == <<"D", "e", "l", "e", "t", "e">>

\* Python's  a in b  for two str: a is a substring of b (the empty string is one).
IsSubstring(a, b) ==
    \E i \in 0..(Len(b) - Len(a)) :
        \A j \in 1..Len(a) : b[i + j] = a[j]

(***************************************************************************)
(* Natural-number arithmetic that reports leaving the model's range: -1     *)
(* stands for "larger than MaxInt".                                         *)
(***************************************************************************)
Over == 0 - 1

NMul(a, b) ==
    IF a < 0 \/ b < 0 THEN Over
    ELSE IF a = 0 \/ b = 0 THEN 0
    ELSE IF a > MaxInt \div b THEN Over
    ELSE a * b

NAdd(a, b) ==
    IF a < 0 \/ b < 0 THEN Over
    ELSE IF a > MaxInt - b THEN Over
    ELSE a + b

RECURSIVE Gcd(_, _)
Gcd(a, b) == IF b = 0 THEN a ELSE Gcd(b, a % b)

RECURSIVE NPowAcc(_, _, _)
NPowAcc(a, n, acc) ==
    IF n = 0 \/ acc < 0 THEN acc ELSE NPowAcc(a, n - 1, NMul(acc, a))

NPow(a, n) ==
    IF n = 0 THEN 1
    ELSE IF a < 0 THEN Over
    ELSE IF a <= 1 THEN a
    ELSE NPowAcc(a, n, 1)

RECURSIVE IsPow2(_)
IsPow2(q) == IF q = 1 THEN TRUE ELSE IF q % 2 # 0 THEN FALSE ELSE IsPow2(q \div 2)

\* the exponent of the power of two q
RECURSIVE Log2(_)
Log2(q) == IF q = 1 THEN 0 ELSE 1 + Log2(q \div 2)

\* q with its factors 2 and 5 removed: 1 exactly when p/q has a finite decimal expansion
RECURSIVE Strip25(_)
Strip25(q) ==
    IF q % 2 = 0 THEN Strip25(q \div 2)
    ELSE IF q % 5 = 0 THEN Strip25(q \div 5)
    ELSE q

(***************************************************************************)
(* Python values that eval() can return for the characters the calculators  *)
(* accept, and the exceptions it can raise.  An int is neg/p; a float is    *)
(* the double nearest to the rational (-1)^neg * p/q (p/q in lowest terms, *)
(* neg kept for zero: -0.0); "()" is the empty tuple and "..." is Ellipsis. *)
(* Past MaxInt the model carries the powers of two only: "int2" is the int  *)
(* and "float2" the double (-1)^neg * 2^p; "inf" is the double a float     *)
(* product or quotient past the largest double becomes.  Unmodelled marks   *)
(* any other value outside the numeric range of the model.                  *)
(***************************************************************************)
Val(t, neg, p, q) == [t |-> t, neg |-> neg, p |-> p, q |-> q]

Unmodelled == Val("unmodelled", FALSE, 0, 1)

ZeroDivisionError == Val("ZeroDivisionError", FALSE, 0, 1)

TypeError == Val("TypeError", FALSE, 0, 1)

NameError == Val("NameError", FALSE, 0, 1)

SyntaxError == Val("SyntaxError", FALSE, 0, 1)

OverflowError == Val("OverflowError", FALSE, 0, 1)

EmptyTuple == Val("tuple", FALSE, 0, 1)

EllipsisVal == Val("ellipsis", FALSE, 0, 1)

VInt(neg, p) ==
    IF p < 0 THEN Unmodelled ELSE Val("int", neg /\ p # 0, p, 1)

VFloat(neg, p, q) ==
    IF p < 0 \/ q < 0 THEN Unmodelled
    ELSE LET g == Gcd(p, q) IN Val("float", neg, p \div g, q \div g)

\* the double inf or -inf
Inf(neg) == Val("inf", neg, 0, 1)

IsNum(v) == v.t \in {"int", "float"}

\* a number past MaxInt
IsBig(v) == v.t \in {"int2", "float2", "inf"}

IsFloat(v) == v.t \in {"float", "float2", "inf"}

Raised(v) ==
    v.t \in {"ZeroDivisionError", "TypeError", "NameError", "SyntaxError",
             "OverflowError"}

\* the double holds the rational exactly (every int of the model does)
Exact(v) == IsPow2(v.q)

IsIntegral(v) == IsNum(v) /\ v.q = 1

\* v is plus or minus a power of two
IsPow2Val(v) ==
    \/ v.t \in {"int2", "float2"}
    \/ IsNum(v) /\ v.p > 0 /\ IsPow2(v.p) /\ IsPow2(v.q)

\* the exponent e of a power of two v = +-2^e
Exp2(v) == IF IsBig(v) THEN v.p ELSE Log2(v.p) - Log2(v.q)

\* (-1)^neg * 2^e as an int (t = "int") or a double (t = "float") of the model
OfExp2(t, neg, e) ==
    IF e > MaxInt THEN Unmodelled
    ELSE IF e < 0 THEN
        (IF t = "int" THEN Unmodelled ELSE VFloat(neg, 1, NPow(2, 0 - e)))
    ELSE IF NPow(2, e) < 0 THEN Val(IF t = "int" THEN "int2" ELSE "float2", neg, e, 1)
    ELSE IF t = "int" THEN VInt(neg, NPow(2, e))
    ELSE VFloat(neg, NPow(2, e), 1)

(***************************************************************************)
(* Arithmetic of int and float                                              *)
(***************************************************************************)
\* (-1)^na * pa/qa + (-1)^nb * pb/qb as <<neg, p, q>>; a zero sum is -0 only
\* when both terms are negative
RatAdd(na, pa, qa, nb, pb, qb) ==
    LET x == NMul(pa, qb)
        y == NMul(pb, qa)
        d == NMul(qa, qb)
    IN  IF x < 0 \/ y < 0 \/ d < 0 THEN <<FALSE, Over, Over>>
        ELSE IF na = nb THEN <<na, NAdd(x, y), d>>
        ELSE IF x = y THEN <<FALSE, 0, d>>
        ELSE IF x > y THEN <<na, x - y, d>>
        ELSE <<nb, y - x, d>>

NumAdd(a, b) ==
    LET r == RatAdd(a.neg, a.p, a.q, b.neg, b.p, b.q)
    IN  IF a.t = "int" /\ b.t = "int" THEN VInt(r[1], r[2])
        ELSE IF ~(Exact(a) /\ Exact(b)) THEN Unmodelled
        ELSE VFloat(r[1], r[2], r[3])

\* a - b is a + (-b); an int operand of a float subtraction is converted first,
\* so its zero becomes -0.0 there
NumSub(a, b) ==
    LET r == RatAdd(a.neg, a.p, a.q, ~b.neg, b.p, b.q)
    IN  IF a.t = "int" /\ b.t = "int" THEN VInt(r[1], r[2])
        ELSE IF ~(Exact(a) /\ Exact(b)) THEN Unmodelled
        ELSE VFloat(r[1], r[2], r[3])

NumNeg(a) ==
    IF a.t = "int" THEN VInt(~a.neg, a.p) ELSE Val(a.t, ~a.neg, a.p, a.q)

NumMul(a, b) ==
    IF a.t = "int" /\ b.t = "int" THEN VInt(a.neg # b.neg, NMul(a.p, b.p))
    ELSE IF ~(Exact(a) /\ Exact(b)) THEN Unmodelled
    ELSE VFloat(a.neg # b.neg, NMul(a.p, b.p), NMul(a.q, b.q))

\* true division: int / int is a float too
NumTrueDiv(a, b) ==
    IF b.p = 0 THEN ZeroDivisionError
    ELSE IF ~(Exact(a) /\ Exact(b)) THEN Unmodelled
    ELSE VFloat(a.neg # b.neg, NMul(a.p, b.q), NMul(a.q, b.p))

\* floor division: the floor of the quotient, an int for two ints
NumFloorDiv(a, b) ==
    IF b.p = 0 THEN ZeroDivisionError
    ELSE IF ~(Exact(a) /\ Exact(b)) THEN Unmodelled
    ELSE LET n == NMul(a.p, b.q)
             d == NMul(a.q, b.p)
         IN  IF n < 0 \/ d < 0 THEN Unmodelled
             ELSE LET fl == IF a.neg = b.neg THEN n \div d
                            ELSE (n \div d) + (IF n % d = 0 THEN 0 ELSE 1)
                  IN  IF a.t = "int" /\ b.t = "int"
                      THEN VInt(a.neg # b.neg, fl)
                      ELSE VFloat(a.neg # b.neg, fl, 1)

\* float ** float (float_pow): also int ** negative int
FloatPow(a, b) ==
    IF b.p = 0 THEN VFloat(FALSE, 1, 1)
    ELSE IF a.p = 0 THEN
        IF b.neg THEN ZeroDivisionError
        ELSE VFloat(a.neg /\ b.q = 1 /\ b.p % 2 = 1, 0, 1)
    ELSE IF ~(Exact(a) /\ Exact(b)) THEN Unmodelled
    ELSE IF b.q # 1 THEN
        \* a fractional exponent: a complex number for a negative base,
        \* in general an irrational number otherwise
        IF ~a.neg /\ a.p = 1 /\ a.q = 1 THEN VFloat(FALSE, 1, 1) ELSE Unmodelled
    ELSE LET sg == a.neg /\ b.p % 2 = 1
             pn == NPow(a.p, b.p)
             qn == NPow(a.q, b.p)
         IN  IF b.neg THEN VFloat(sg, qn, pn)
             ELSE IF pn < 0 /\ a.q = 1 /\ IsPow2(a.p) THEN
                 \* a power of two past MaxInt; "Numerical result out of range"
                 \* from 2^1024 on
                 IF NMul(Log2(a.p), b.p) < 0 \/ NMul(Log2(a.p), b.p) >= DBL_MAX_EXP
                 THEN OverflowError
                 ELSE OfExp2("float", sg, Log2(a.p) * b.p)
             ELSE VFloat(sg, pn, qn)

\* int ** int with a non-negative exponent (long_pow): n is |a|^b, Over past
\* MaxInt
IntPow(sg, n, a, b) ==
    IF n >= 0 THEN VInt(sg, n)
    ELSE IF IsPow2(a.p) /\ NMul(Log2(a.p), b.p) >= 0
    THEN OfExp2("int", sg, Log2(a.p) * b.p)
    ELSE Unmodelled

NumPow(a, b) ==
    IF a.t = "int" /\ b.t = "int" /\ ~b.neg
    THEN IntPow(a.neg /\ b.p % 2 = 1, NPow(a.p, b.p), a, b)
    ELSE FloatPow(a, b)

\* an operator with an operand past MaxInt.  A float operator converts an int
\* operand first ("int too large to convert to float" from 2^1024 on); the
\* product and the quotient of two powers of two are modelled: a float
\* result from 2^1024 on is inf, the quotient of two ints raises instead
BigApply(op, a, b) ==
    IF /\ IsFloat(a) \/ IsFloat(b)
       /\ \/ a.t = "int2" /\ a.p >= DBL_MAX_EXP
          \/ b.t = "int2" /\ b.p >= DBL_MAX_EXP
    THEN OverflowError
    ELSE IF op \in {"/", "//"} /\ IsNum(b) /\ b.p = 0 THEN ZeroDivisionError
    ELSE IF op \notin {"*", "/"} \/ ~IsPow2Val(a) \/ ~IsPow2Val(b) THEN Unmodelled
    ELSE IF op = "*" /\ ~(IsFloat(a) \/ IsFloat(b))
    THEN OfExp2("int", a.neg # b.neg, Exp2(a) + Exp2(b))
    ELSE IF op = "*" THEN
        IF Exp2(a) + Exp2(b) >= DBL_MAX_EXP THEN Inf(a.neg # b.neg)
        ELSE OfExp2("float", a.neg # b.neg, Exp2(a) + Exp2(b))
    ELSE IF Exp2(a) - Exp2(b) >= DBL_MAX_EXP THEN
        (IF IsFloat(a) \/ IsFloat(b) THEN Inf(a.neg # b.neg) ELSE OverflowError)
    ELSE OfExp2("float", a.neg # b.neg, Exp2(a) - Exp2(b))

(***************************************************************************)
(* The operators of the expression grammar applied to evaluated operands.   *)
(* Python evaluates the left operand, then the right one, then applies the  *)
(* operator: the first exception raised is the one eval() raises.           *)
(***************************************************************************)
\* () * n for an int n past MaxInt: the count has to fit Py_ssize_t, 64 bits
Repeat(n) ==
    IF n.p > 63 \/ (n.p = 63 /\ ~n.neg) THEN OverflowError ELSE EmptyTuple

Apply(op, a, b) ==
    IF IsNum(a) /\ IsNum(b) THEN
        CASE op = "+" -> NumAdd(a, b)
          [] op = "-" -> NumSub(a, b)
          [] op = "*" -> NumMul(a, b)
          [] op = "/" -> NumTrueDiv(a, b)
          [] op = "//" -> NumFloorDiv(a, b)
          [] op = "**" -> NumPow(a, b)
    ELSE IF (IsNum(a) \/ IsBig(a)) /\ (IsNum(b) \/ IsBig(b)) THEN BigApply(op, a, b)
    ELSE IF op = "+" /\ a.t = "tuple" /\ b.t = "tuple" THEN EmptyTuple
    ELSE IF op = "*" /\ a.t = "tuple" /\ b.t = "int" THEN EmptyTuple
    ELSE IF op = "*" /\ a.t = "int" /\ b.t = "tuple" THEN EmptyTuple
    ELSE IF op = "*" /\ a.t = "tuple" /\ b.t = "int2" THEN Repeat(b)
    ELSE IF op = "*" /\ a.t = "int2" /\ b.t = "tuple" THEN Repeat(a)
    ELSE TypeError

BinOp(op, a, b) ==
    IF Raised(a) \/ a.t = "unmodelled" THEN a
    ELSE IF Raised(b) \/ b.t = "unmodelled" THEN b
    ELSE Apply(op, a, b)

UnaryOp(op, a) ==
    IF Raised(a) \/ a.t = "unmodelled" THEN a
    ELSE IF ~(IsNum(a) \/ IsBig(a)) THEN TypeError
    ELSE IF op = "-" THEN NumNeg(a)
    ELSE a

\* f(arg): no value eval() can build here is callable
Call(f, arg) ==
    IF Raised(f) \/ f.t = "unmodelled" THEN f
    ELSE IF Raised(arg) \/ arg.t = "unmodelled" THEN arg
    ELSE TypeError

(***************************************************************************)
(* The tokens of a Python expression over the characters a calculator can   *)
(* hold: digits . + - * / ( ) and, after a result "Ellipsis" or "inf",      *)
(* letters.                                                                 *)
(***************************************************************************)
Tok(k, v) == [k |-> k, v |-> v]

\* the index after the run of digits that starts at i
ScanDigits(s, i) ==
    CHOOSE j \in i..(Len(s) + 1) :
        /\ \A k \in i..(j - 1) : IsDigit(s[k])
        /\ j = Len(s) + 1 \/ ~IsDigit(s[j])

\* the index after the name (letters and digits) that starts at i
ScanName(s, i) ==
    CHOOSE j \in i..(Len(s) + 1) :
        /\ \A k \in i..(j - 1) : IsDigit(s[k]) \/ IsLetter(s[k])
        /\ j = Len(s) + 1 \/ ~(IsDigit(s[j]) \/ IsLetter(s[j]))

RECURSIVE DigitsValAcc(_, _, _)
DigitsValAcc(ds, i, acc) ==
    IF i > Len(ds) \/ acc < 0 THEN acc
    ELSE DigitsValAcc(ds, i + 1, NAdd(NMul(acc, 10), DigitVal(ds[i])))

DigitsVal(ds) == DigitsValAcc(ds, 1, 0)

\* a number followed at once by a letter is "invalid decimal literal"
NumberEnd(s, j, tok) ==
    IF j <= Len(s) /\ IsLetter(s[j]) THEN Tok("bad", SyntaxError) ELSE tok

\* the literal  s[i..j-1] "." s[j+1..k-1]  (either part may be empty, not both)
FloatLiteral(s, i, j, k) ==
    VFloat(FALSE, DigitsVal(SubSeq(s, i, j - 1) \o SubSeq(s, j + 1, k - 1)),
           NPow(10, k - j - 1))

\* the literal s[i..j-1]; a leading 0 is allowed only when every digit is 0
IntLiteral(s, i, j) ==
    LET n == DigitsVal(SubSeq(s, i, j - 1))
    IN  IF s[i] = "0" /\ n # 0 THEN Tok("bad", SyntaxError)
        ELSE Tok("num", VInt(FALSE, n))

\* <<token, index after it>> for the token that starts at i
NextToken(s, i) ==
    LET c == s[i]
    IN  IF IsDigit(c) THEN
            LET j == ScanDigits(s, i)
            IN  IF j <= Len(s) /\ s[j] = "."
                THEN LET k == ScanDigits(s, j + 1)
                     IN  <<NumberEnd(s, k, Tok("num", FloatLiteral(s, i, j, k))), k>>
                ELSE <<NumberEnd(s, j, IntLiteral(s, i, j)), j>>
        ELSE IF c = "." THEN
            IF i + 1 <= Len(s) /\ IsDigit(s[i + 1])
            THEN LET k == ScanDigits(s, i + 1)
                 IN  <<NumberEnd(s, k, Tok("num", FloatLiteral(s, i, i, k))), k>>
            ELSE IF i + 2 <= Len(s) /\ s[i + 1] = "." /\ s[i + 2] = "."
            THEN <<Tok("ellipsis", EllipsisVal), i + 3>>
            ELSE <<Tok("dot", SyntaxError), i + 1>>
        ELSE IF IsLetter(c) THEN
            LET j == ScanName(s, i)
            IN  <<Tok("name", IF SubSeq(s, i, j - 1) = StrEllipsis
                              THEN EllipsisVal ELSE NameError), j>>
        ELSE IF c \in {"*", "/"} THEN
            IF i + 1 <= Len(s) /\ s[i + 1] = c
            THEN <<Tok(IF c = "*" THEN "**" ELSE "//", SyntaxError), i + 2>>
            ELSE <<Tok(c, SyntaxError), i + 1>>
        ELSE IF c \in {"+", "-", "(", ")"} THEN <<Tok(c, SyntaxError), i + 1>>
        ELSE <<Tok("bad", SyntaxError), i + 1>>

RECURSIVE TokensFrom(_, _)
TokensFrom(s, i) ==
    IF i > Len(s) THEN <<>>
    ELSE LET nt == NextToken(s, i) IN <<nt[1]>> \o TokensFrom(s, nt[2])

Tokenize(s) == TokensFrom(s, 1)

(***************************************************************************)
(* The parser and evaluator of eval(): Python's expression grammar for      *)
(* these tokens,                                                            *)
(*   sum     := term (("+" | "-") term)*                                    *)
(*   term    := factor (("*" | "/" | "//") factor)*                         *)
(*   factor  := ("+" | "-") factor | power                                  *)
(*   power   := primary ["**" factor]                                       *)
(*   primary := atom ("(" [["*" | "**"] sum] ")")*                          *)
(*   atom    := NUMBER | NAME | "..." | "(" ")" | "(" sum ")"               *)
(* Each operator returns [v, i]: the value and the index of the next token; *)
(* v = SyntaxError when the tokens do not parse (nothing is evaluated then).*)
(***************************************************************************)
Res(v, i) == [v |-> v, i |-> i]

IsSyn(r) == r.v.t = "SyntaxError"

At(ts, i, ks) == i <= Len(ts) /\ ts[i].k \in ks

RECURSIVE Sum(_, _), SumRest(_, _, _), Term(_, _), TermRest(_, _, _)
RECURSIVE Factor(_, _), Power(_, _), Primary(_, _), Trailers(_, _, _), Atom(_, _)

\* the operand r, parsed after the operator k, applied to the left operand acc
Operand(k, acc, r) ==
    IF IsSyn(r) THEN r ELSE Res(BinOp(k, acc, r.v), r.i)

\* the operand r, parsed after the unary operator k
Signed(k, r) == IF IsSyn(r) THEN r ELSE Res(UnaryOp(k, r.v), r.i)

\* the expression e, parsed after "(", up to its ")"
Closed(ts, e) ==
    IF IsSyn(e) THEN e
    ELSE IF At(ts, e.i, {")"}) THEN Res(e.v, e.i + 1)
    ELSE Res(SyntaxError, e.i)

Atom(ts, i) ==
    IF At(ts, i, {"num", "name", "ellipsis"}) THEN Res(ts[i].v, i + 1)
    ELSE IF At(ts, i, {"("}) THEN
        IF At(ts, i + 1, {")"}) THEN Res(EmptyTuple, i + 2)
        ELSE Closed(ts, Sum(ts, i + 1))
    ELSE Res(SyntaxError, i)

\* the call of f with the argument e, parsed up to its ")"
Called(f, e) == IF IsSyn(e) THEN e ELSE Res(Call(f, e.v), e.i)

\* the trailers that follow the primary r
TrailersOf(ts, r) == IF IsSyn(r) THEN r ELSE Trailers(ts, r.v, r.i)

Trailers(ts, f, i) ==
    IF ~At(ts, i, {"("}) THEN Res(f, i)
    ELSE IF At(ts, i + 1, {")"}) THEN Trailers(ts, Call(f, EmptyTuple), i + 2)
    ELSE TrailersOf(ts, Called(f, Closed(ts,
             Sum(ts, IF At(ts, i + 1, {"*", "**"}) THEN i + 2 ELSE i + 1))))

Primary(ts, i) == TrailersOf(ts, Atom(ts, i))

\* the exponent that may follow the primary b
Exponent(ts, b) ==
    IF IsSyn(b) \/ ~At(ts, b.i, {"**"}) THEN b
    ELSE Operand("**", b.v, Factor(ts, b.i + 1))

Power(ts, i) == Exponent(ts, Primary(ts, i))

Factor(ts, i) ==
    IF At(ts, i, {"+", "-"})
    THEN Signed(ts[i].k, Factor(ts, i + 1))
    ELSE Power(ts, i)

\* the factors that follow the term r
TermOf(ts, r) == IF IsSyn(r) THEN r ELSE TermRest(ts, r.v, r.i)

TermRest(ts, acc, i) ==
    IF ~At(ts, i, {"*", "/", "//"}) THEN Res(acc, i)
    ELSE TermOf(ts, Operand(ts[i].k, acc, Factor(ts, i + 1)))

Term(ts, i) == TermOf(ts, Factor(ts, i))

\* the terms that follow the sum r
SumOf(ts, r) == IF IsSyn(r) THEN r ELSE SumRest(ts, r.v, r.i)

SumRest(ts, acc, i) ==
    IF ~At(ts, i, {"+", "-"}) THEN Res(acc, i)
    ELSE SumOf(ts, Operand(ts[i].k, acc, Term(ts, i + 1)))

Sum(ts, i) == SumOf(ts, Term(ts, i))

\* the value of the parse r of the whole token sequence ts
Parsed(ts, r) ==
    IF IsSyn(r) \/ r.i # Len(ts) + 1 THEN SyntaxError ELSE r.v

\* the value of the token sequence ts
Compiled(ts) ==
    IF \E i \in 1..Len(ts) : ts[i].k = "bad" THEN SyntaxError
    ELSE Parsed(ts, Sum(ts, 1))

\* eval(s): the value, or the exception raised
PyEval(s) == Compiled(Tokenize(s))

(***************************************************************************)
(* str(): the decimal digits of an int; for a float the shortest decimal    *)
(* that reads back as the same double, with ".0" after an integral value.   *)
(***************************************************************************)
RECURSIVE NatStr(_)
NatStr(n) ==
    IF n < 10 THEN <<DigitChars[n + 1]>>
    ELSE NatStr(n \div 10) \o <<DigitChars[(n % 10) + 1]>>

\* the least k with q dividing 10^k, as <<k, 10^k>>; <<Over, Over>> past MaxInt
RECURSIVE DecPlaces(_, _, _)
DecPlaces(q, k, pow10) ==
    IF pow10 < 0 THEN <<Over, Over>>
    ELSE IF pow10 % q = 0 THEN <<k, pow10>>
    ELSE DecPlaces(q, k + 1, NMul(pow10, 10))

\* n written with exactly k digits
RECURSIVE PadStr(_, _)
PadStr(n, k) ==
    IF k = 0 THEN <<>> ELSE PadStr(n \div 10, k - 1) \o <<DigitChars[(n % 10) + 1]>>

\* the float's digits without the point, as <<k, 10^k, m>>: value = m / 10^k
FloatDigits(v) ==
    IF Strip25(v.q) # 1 THEN <<Over, Over, Over>>
    ELSE LET d == DecPlaces(v.q, 0, 1)
         IN  IF d[1] < 0 THEN <<Over, Over, Over>>
             ELSE <<d[1], d[2], NMul(v.p, d[2] \div v.q)>>

\* repr() switches to the exponent form below 1e-4 (and from 1e16 on, which
\* is past MaxInt): those and the floats with no short decimal expansion are
\* outside the model
ReprModelled(v) ==
    \/ v.t \in {"int", "tuple", "ellipsis", "inf"}
    \/ /\ v.t = "float"
       /\ LET d == FloatDigits(v)
          IN  /\ d[3] >= 0
              /\ ~(d[3] > 0 /\ d[1] >= 4 /\ d[3] < d[2] \div 10000)

Sign(v) == IF v.neg THEN <<"-">> ELSE <<>>

PyStr(v) ==
    CASE v.t = "int" -> Sign(v) \o NatStr(v.p)
      [] v.t = "float" ->
            LET d == FloatDigits(v)
            IN  Sign(v) \o NatStr(d[3] \div d[2]) \o <<".">> \o
                (IF d[1] = 0 THEN <<"0">> ELSE PadStr(d[3] % d[2], d[1]))
      [] v.t = "tuple" -> <<"(", ")">>
      [] v.t = "ellipsis" -> StrEllipsis
      [] v.t = "inf" -> Sign(v) \o StrInf

(***************************************************************************)
(* State.                                                                   *)
(*   gui            which program runs: "flet", "tkinter", or "both" when   *)
(*                  the two are fed the same actions side by side           *)
(*   CalculatorApp  the flet object: expression, display (display.value)    *)
(*   Calculator     the tkinter object: expression, display (the Entry text)*)
(*   messagebox     the text of the error dialog the last handler showed    *)
(*   last           the event handled last: ev is "init", "C", "input",     *)
(*                  "ignored" (a key no branch takes) or, for "=", how      *)
(*                  eval() ended: "ok", "ZeroDivisionError", "Exception";   *)
(*                  src/key say which button or key it was, data is the     *)
(*                  string handed to the handler, after is what the         *)
(*                  expression was before the event (see Status)            *)
(*   chained        the results continued so far in the expression          *)
(* CalculatorApp.history is written on "=" and "C" and never read: it is    *)
(* left out.                                                                *)
(***************************************************************************)
VARIABLES gui, CalculatorApp, Calculator, messagebox, last, chained

vars == <<gui, CalculatorApp, Calculator, messagebox, last, chained>>

Obj(expression, display) == [expression |-> expression, display |-> display]

Event(ev, src, key, data, after) ==
    [ev |-> ev, src |-> src, key |-> key, data |-> data, after |-> after]

\* the except branch that the outcome v of eval() selects
Outcome(v) ==
    IF v.t = "ZeroDivisionError" THEN "ZeroDivisionError"
    ELSE IF Raised(v) THEN "Exception"
    ELSE "ok"

\* how eval(expression) ends
EvalStatus(expression) == Outcome(PyEval(expression))

\* the outcome v stays inside the numeric range of the model
Modelled(v) == v.t # "unmodelled" /\ (Raised(v) \/ ReprModelled(v))

EvalModelled(expression) == Modelled(PyEval(expression))

(***************************************************************************)
(* main_interface_flet.py                                                   *)
(***************************************************************************)
valid_keys ==
    <<"0", "1", "2", "3", "4", "5", "6", "7", "8", "9",
      "+", "-", "*", "/", "(", ")", ".">>

\* the digits that have a button in the model
DigitButtons == {"0", "1", "2"}

\* the labels of the buttons CalculatorApp.__init__ creates
FletButtons == {"C", "(", ")", "/", "*", "-", "+", ".", "="} \cup DigitButtons

\* expression and display both hold the string r
Both(r) == Obj(r, r)

\* process_input, lines 102-109: v is what eval(self.expression) yields
Evaluated(v) ==
    IF Raised(v) THEN Obj(<<>>, StrError) ELSE Both(PyStr(v))

\* lines 102-109 without  self.expression = self.display.value
EvaluatedKept(self, v) ==
    IF Raised(v) THEN Obj(<<>>, StrError) ELSE Obj(self.expression, PyStr(v))

\* process_input that does not store the result as the expression
process_input_keeps_expression(self, data) ==
    IF data = <<"C">> THEN Obj(<<>>, Str0)
    ELSE IF data = <<"=">> THEN EvaluatedKept(self, PyEval(self.expression))
    ELSE IF self.display \in {Str0, StrError} THEN Both(data)
    ELSE Both(self.expression \o data)

\* CalculatorApp.process_input(data)
process_input(self, data) ==
    IF data = <<"C">> THEN Obj(<<>>, Str0)
    ELSE IF data = <<"=">> THEN Evaluated(PyEval(self.expression))
    ELSE IF self.display \in {Str0, StrError} THEN Both(data)
    ELSE Both(self.expression \o data)

\* what on_keyboard hands to process_input for e.key; <<"ignored">> when no
\* branch is taken
KeyData(key) ==
    IF IsSubstring(key, valid_keys) THEN key
    ELSE IF key = StrEnter THEN <<"=">>
    ELSE IF key \in {StrBackspace, StrDelete} THEN <<"C">>
    ELSE <<"ignored">>

\* main.on_keyboard(e), handing data to process_input
Dispatch(self, data) ==
    IF data = <<"ignored">> THEN self ELSE process_input(self, data)

\* main.on_keyboard(e)
on_keyboard(self, key) == Dispatch(self, KeyData(key))

\* the key names of the keyboard events in the model
Keys ==
    { <<>>, <<"A">>, <<"1">>, <<"1", "2">>, <<"(", ")">>,
      StrEnter, StrBackspace, StrDelete }

(***************************************************************************)
(* main_interface_tkinter.py                                                *)
(***************************************************************************)
\* the labels of the buttons Calculator.__init__ creates
TkButtons == {"/", "*", "-", "+", "C", "="} \cup DigitButtons

Shown(expression, display, shown) ==
    [expression |-> expression, display |-> display, shown |-> shown]

\* update_display(): the display shows the expression
Updated(expression, shown) == Shown(expression, expression, shown)

\* calculate_result, lines 59-72: v is what eval(self.expression) yields
Result(v) ==
    IF v.t = "ZeroDivisionError" THEN Updated(<<>>, "Cannot divide by zero")
    ELSE IF Raised(v) THEN Updated(<<>>, "Invalid Expression")
    ELSE Updated(PyStr(v), "")

\* lines 59-72 without  self.expression = ""  in the two except branches
ResultKept(self, v) ==
    IF v.t = "ZeroDivisionError"
    THEN Updated(self.expression, "Cannot divide by zero")
    ELSE IF Raised(v) THEN Updated(self.expression, "Invalid Expression")
    ELSE Updated(PyStr(v), "")

\* calculate_result that keeps the expression when eval() fails
calculate_result_keeps_expression(self) ==
    ResultKept(self, PyEval(self.expression))

\* Calculator.calculate_result()
calculate_result(self) == Result(PyEval(self.expression))

\* Calculator.on_button_click(char), with the update_display() it ends in
on_button_click(self, char) ==
    IF char = "C" THEN Updated(<<>>, "")
    ELSE IF char = "=" THEN calculate_result(self)
    ELSE Updated(self.expression \o <<char>>, "")

(***************************************************************************)
(* Events                                                                   *)
(***************************************************************************)
\* the ev of the event that hands data to a handler whose expression is e
EvOf(e, data) ==
    IF data = <<"C">> THEN "C"
    ELSE IF data = <<"=">> THEN EvalStatus(e)
    ELSE IF data = <<"ignored">> THEN "ignored"
    ELSE "input"

\* what the expression is: the "result" a successful "=" left, with nothing
\* handled since, the empty string a "failed" "=" left, or "typed"
Status ==
    IF last.ev = "ignored" THEN last.after
    ELSE IF last.ev = "ok" THEN "result"
    ELSE IF last.ev \in {"ZeroDivisionError", "Exception"} THEN "failed"
    ELSE "typed"

\* the event ev appends data to an expression e that "=" has just left as its
\* result
Continues(ev, e, new, data) ==
    Status = "result" /\ ev = "input" /\ new = e \o data

\* the bounds of the model: no expression longer than MaxLen is built from
\* characters, and no more than MaxChain results in a row are continued
InBounds(ev, e, new, data) ==
    \/ data = <<"=">>
    \/ /\ Len(new) <= (IF gui = "tkinter" THEN MaxLenTk ELSE MaxLen)
       /\ Continues(ev, e, new, data) => chained < MaxChain

\* the results continued so far in the expression new that the event leaves
Chain(ev, e, new, data) ==
    IF data = <<"=">> THEN (IF ev = "ok" THEN chained ELSE 0)
    ELSE IF Continues(ev, e, new, data) THEN chained + 1
    ELSE IF new = e \o data THEN chained
    ELSE 0

\* the event ev, from src with key, has handed data to the handler and turned
\* the expression e into new
Handled(ev, src, key, data, e, new) ==
    /\ InBounds(ev, e, new, data)
    /\ last' = Event(ev, src, key, data, Status)
    /\ chained' = IF ev = "ignored" THEN chained ELSE Chain(ev, e, new, data)

\* "=" is handled only where the evaluation of e is modelled
CanHandle(e, data) == data = <<"=">> => EvalModelled(e)

Init ==
    /\ gui \in {"flet", "tkinter"}
    /\ CalculatorApp = Obj(<<>>, Str0)
    /\ Calculator = Obj(<<>>, <<>>)
    /\ messagebox = ""
    /\ last = Event("init", "none", <<>>, <<>>, "typed")
    /\ chained = 0

\* a click on the flet button labelled text
FletClick(text) ==
    /\ gui = "flet"
    /\ CanHandle(CalculatorApp.expression, <<text>>)
    /\ CalculatorApp' = process_input(CalculatorApp, <<text>>)
    /\ Handled(EvOf(CalculatorApp.expression, <<text>>), "button", <<text>>,
               <<text>>, CalculatorApp.expression, CalculatorApp'.expression)
    /\ UNCHANGED <<gui, Calculator, messagebox>>

\* a keyboard event on the flet page
FletKey(key) ==
    /\ gui = "flet"
    /\ CanHandle(CalculatorApp.expression, KeyData(key))
    /\ CalculatorApp' = on_keyboard(CalculatorApp, key)
    /\ Handled(EvOf(CalculatorApp.expression, KeyData(key)), "key", key,
               KeyData(key), CalculatorApp.expression, CalculatorApp'.expression)
    /\ UNCHANGED <<gui, Calculator, messagebox>>

\* the tkinter program after the handler has left new
Left(new) ==
    /\ Calculator' = Obj(new.expression, new.display)
    /\ messagebox' = new.shown

\* a click on the tkinter button labelled char
TkClick(char) ==
    /\ gui = "tkinter"
    /\ CanHandle(Calculator.expression, <<char>>)
    /\ Left(on_button_click(Calculator, char))
    /\ Handled(EvOf(Calculator.expression, <<char>>), "button", <<char>>,
               <<char>>, Calculator.expression, Calculator'.expression)
    /\ UNCHANGED <<gui, CalculatorApp>>

Next ==
    \/ \E text \in FletButtons : FletClick(text)
    \/ \E key \in Keys : FletKey(key)
    \/ \E char \in TkButtons : TkClick(char)

Spec == Init /\ [][Next]_vars

(***************************************************************************)
(* The two programs side by side, fed the same abstract action: a character *)
(* both have a button for, "=" or "C".                                      *)
(***************************************************************************)
InitBoth ==
    /\ gui = "both"
    /\ CalculatorApp = Obj(<<>>, Str0)
    /\ Calculator = Obj(<<>>, <<>>)
    /\ messagebox = ""
    /\ last = Event("init", "none", <<>>, <<>>, "typed")
    /\ chained = 0

BothClick(char) ==
    /\ gui = "both"
    /\ CanHandle(CalculatorApp.expression, <<char>>)
    /\ CanHandle(Calculator.expression, <<char>>)
    /\ CalculatorApp' = process_input(CalculatorApp, <<char>>)
    /\ Left(on_button_click(Calculator, char))
    /\ InBounds(EvOf(CalculatorApp.expression, <<char>>), CalculatorApp.expression,
                CalculatorApp'.expression, <<char>>)
    /\ Handled(EvOf(Calculator.expression, <<char>>), "button", <<char>>,
               <<char>>, Calculator.expression, Calculator'.expression)
    /\ UNCHANGED gui

NextBoth == \E char \in FletButtons \cap TkButtons : BothClick(char)

SpecBoth == InitBoth /\ [][NextBoth]_vars

(***************************************************************************)
(* A program with an expression typed already: operands joined by          *)
(* operators, one character a click.  tkinter has no button for ".".        *)
(***************************************************************************)
Operands == {<<"2">>, <<"2", ".">>, <<"1">>, <<"1", "0", "2", "3">>}

Operators == {<<"*">>, <<"*", "*">>, <<"/">>}

Typed ==
    LET two == {a \o o \o b : a \in Operands, o \in Operators, b \in Operands}
        three == {e \o o \o b : e \in two, o \in Operators, b \in Operands}
        four == {e \o o \o b : e \in three, o \in Operators, b \in Operands}
    IN  two \cup three \cup four

HasPoint(d) == \E i \in 1..Len(d) : d[i] = "."

InitEval ==
    /\ gui \in {"flet", "tkinter"}
    /\ \E s \in Typed :
          /\ gui = "tkinter" => ~HasPoint(s)
          /\ CalculatorApp = IF gui = "flet" THEN Both(s) ELSE Obj(<<>>, Str0)
          /\ Calculator = IF gui = "tkinter" THEN Both(s) ELSE Obj(<<>>, <<>>)
    /\ messagebox = ""
    /\ last = Event("init", "none", <<>>, <<>>, "typed")
    /\ chained = 0

SpecEval == InitEval /\ [][Next]_vars

(***************************************************************************)
(* The arithmetic grammar the properties refer to,                          *)
(*   expr    := term (("+" | "-") term)*                                    *)
(*   term    := unary (("*" | "/") unary)*                                  *)
(*   unary   := "-" unary | primary                                         *)
(*   primary := NUMBER | "(" expr ")"                                       *)
(* with NUMBER a run of digits with at most one "." in it, and its exact    *)
(* rational value: the reference the calculators are compared with.         *)
(***************************************************************************)
LexError == Val("LexError", FALSE, 0, 1)

ParseError == Val("ParseError", FALSE, 0, 1)

DivideByZeroError == Val("DivideByZeroError", FALSE, 0, 1)

Rat(neg, p, q) ==
    IF p < 0 \/ q < 0 THEN Unmodelled
    ELSE LET g == Gcd(p, q) IN Val("num", neg /\ p # 0, p \div g, q \div g)

IsNumChar(c) == IsDigit(c) \/ c = "."

ScanNumber(s, i) ==
    CHOOSE j \in i..(Len(s) + 1) :
        /\ \A k \in i..(j - 1) : IsNumChar(s[k])
        /\ j = Len(s) + 1 \/ ~IsNumChar(s[j])

RefNumber(run) ==
    LET dots == {k \in 1..Len(run) : run[k] = "."}
        digits == SelectSeq(run, IsDigit)
    IN  IF Cardinality(dots) > 1 \/ Len(digits) = 0 THEN Tok("bad", LexError)
        ELSE IF dots = {} THEN Tok("num", Rat(FALSE, DigitsVal(digits), 1))
        ELSE LET d == CHOOSE k \in dots : TRUE
             IN  Tok("num", Rat(FALSE, DigitsVal(digits), NPow(10, Len(run) - d)))

RECURSIVE RefTokensFrom(_, _)
RefTokensFrom(s, i) ==
    IF i > Len(s) THEN <<>>
    ELSE IF IsNumChar(s[i]) THEN
        LET j == ScanNumber(s, i)
        IN  <<RefNumber(SubSeq(s, i, j - 1))>> \o RefTokensFrom(s, j)
    ELSE IF s[i] \in {"+", "-", "*", "/", "(", ")"}
    THEN <<Tok(s[i], ParseError)>> \o RefTokensFrom(s, i + 1)
    ELSE <<Tok("bad", LexError)>> \o RefTokensFrom(s, i + 1)

RefApply(op, a, b) ==
    IF a.t # "num" THEN a
    ELSE IF b.t # "num" THEN b
    ELSE CASE op = "+" ->
                LET r == RatAdd(a.neg, a.p, a.q, b.neg, b.p, b.q)
                IN  Rat(r[1], r[2], r[3])
           [] op = "-" ->
                LET r == RatAdd(a.neg, a.p, a.q, ~b.neg, b.p, b.q)
                IN  Rat(r[1], r[2], r[3])
           [] op = "*" -> Rat(a.neg # b.neg, NMul(a.p, b.p), NMul(a.q, b.q))
           [] op = "/" ->
                IF b.p = 0 THEN DivideByZeroError
                ELSE Rat(a.neg # b.neg, NMul(a.p, b.q), NMul(a.q, b.p))

RefNeg(a) == IF a.t # "num" THEN a ELSE Rat(~a.neg, a.p, a.q)

IsParseError(r) == r.v.t = "ParseError"

RECURSIVE RefExpr(_, _), RefExprRest(_, _, _), RefTerm(_, _), RefTermRest(_, _, _)
RECURSIVE RefUnary(_, _), RefPrimary(_, _)

RefPrimary(ts, i) ==
    IF At(ts, i, {"num"}) THEN Res(ts[i].v, i + 1)
    ELSE IF At(ts, i, {"("}) THEN
        LET e == RefExpr(ts, i + 1)
        IN  IF IsParseError(e) THEN e
            ELSE IF At(ts, e.i, {")"}) THEN Res(e.v, e.i + 1)
            ELSE Res(ParseError, e.i)
    ELSE Res(ParseError, i)

RefUnary(ts, i) ==
    IF At(ts, i, {"-"})
    THEN LET r == RefUnary(ts, i + 1)
         IN  IF IsParseError(r) THEN r ELSE Res(RefNeg(r.v), r.i)
    ELSE RefPrimary(ts, i)

RefTermRest(ts, acc, i) ==
    IF ~At(ts, i, {"*", "/"}) THEN Res(acc, i)
    ELSE LET r == RefUnary(ts, i + 1)
         IN  IF IsParseError(r) THEN r
             ELSE RefTermRest(ts, RefApply(ts[i].k, acc, r.v), r.i)

RefTerm(ts, i) ==
    LET r == RefUnary(ts, i) IN IF IsParseError(r) THEN r ELSE RefTermRest(ts, r.v, r.i)

RefExprRest(ts, acc, i) ==
    IF ~At(ts, i, {"+", "-"}) THEN Res(acc, i)
    ELSE LET r == RefTerm(ts, i + 1)
         IN  IF IsParseError(r) THEN r
             ELSE RefExprRest(ts, RefApply(ts[i].k, acc, r.v), r.i)

RefExpr(ts, i) ==
    LET r == RefTerm(ts, i) IN IF IsParseError(r) THEN r ELSE RefExprRest(ts, r.v, r.i)

\* the reference outcome for the string s: a "num", LexError, ParseError,
\* DivideByZeroError (or Unmodelled past MaxInt)
RefEval(s) ==
    LET ts == RefTokensFrom(s, 1)
    IN  IF \E i \in 1..Len(ts) : ts[i].k = "bad" THEN LexError
        ELSE LET r == RefExpr(ts, 1)
             IN  IF IsParseError(r) \/ r.i # Len(ts) + 1 THEN ParseError ELSE r.v

MatchesGrammar(s) == RefEval(s).t \notin {"LexError", "ParseError"}

\* the Python number v and the reference number w are the same number
SameNumber(v, w) == IsNum(v) /\ w.t = "num" /\ v.p = w.p /\ v.q = w.q
                    /\ (v.p = 0 \/ v.neg = w.neg)

(***************************************************************************)
(* What the properties read off a state of the program that runs.           *)
(***************************************************************************)
Expr == IF gui = "tkinter" THEN Calculator.expression ELSE CalculatorApp.expression

Display == IF gui = "tkinter" THEN Calculator.display ELSE CalculatorApp.display

\* the step handled "="
EqualsHandled == last'.ev \in {"ok", "ZeroDivisionError", "Exception"}

\* the step handled a string that is neither "C" nor "="
InputHandled == last'.ev = "input"

ValidChars == {valid_keys[i] : i \in 1..Len(valid_keys)}

C2_ReplaceOrAppend ==
    [][InputHandled =>
           /\ Expr' = IF Display \in {Str0, StrError}
                      THEN last'.data
                      ELSE Expr \o last'.data
           /\ Display' = Expr']_vars

(***************************************************************************)
(* C3: when "=" is pressed and the evaluation fails, the expression is      *)
(* reset to the empty string and the display shows no result (flet: "Error",*)
(* tkinter: empty); the next input c then makes the expression exactly c.   *)
(***************************************************************************)
C3_FailedEvaluationResets ==
    [][/\ last'.ev \in {"ZeroDivisionError", "Exception"} =>
              /\ Expr' = <<>>
              /\ Display' = IF gui = "flet" THEN StrError ELSE <<>>
       /\ (Status = "failed" /\ InputHandled) => Expr' = last'.data]_vars

\* a character has been typed after a failed evaluation
C3_Witness ==
    /\ last.ev = "input" /\ last.after = "failed"
    /\ Expr = last.data /\ Len(Expr) = 1

(***************************************************************************)
(* C4: "=" on an expression that does not match the arithmetic grammar      *)
(* yields an error, never a result.                                         *)
(***************************************************************************)
C4_NonGrammarIsError ==
    [][(EqualsHandled /\ ~MatchesGrammar(Expr)) => last'.ev # "ok"]_vars

(***************************************************************************)
(* C5: "=" on an expression that matches the arithmetic grammar (numbers    *)
(* with leading zeros included) and divides by no zero succeeds, and the    *)
(* value displayed is the mathematically correct one.                       *)
(***************************************************************************)
C5_ValidEvaluatesCorrectly ==
    [][(EqualsHandled /\ RefEval(Expr).t = "num") =>
           /\ last'.ev = "ok"
           /\ SameNumber(PyEval(Expr), RefEval(Expr))]_vars

(***************************************************************************)
(* C6: "=" on an expression in which the right operand of some "/" is       *)
(* exactly 0 fails with the divide-by-zero outcome: no result is displayed, *)
(* the expression is reset, and tkinter reports "Cannot divide by zero".    *)
(***************************************************************************)
C6_DivideByZeroReported ==
    [][(EqualsHandled /\ RefEval(Expr).t = "DivideByZeroError") =>
           /\ last'.ev = "ZeroDivisionError"
           /\ Expr' = <<>>
           /\ Display' = IF gui = "flet" THEN StrError ELSE <<>>
           /\ gui = "tkinter" => messagebox' = "Cannot divide by zero"]_vars

(***************************************************************************)
(* C7: a successful "=" displays an integral number without a fractional    *)
(* part (also when a division or decimal operands produced it) and any      *)
(* other number with one.                                                   *)
(***************************************************************************)
C7_IntegralWithoutFraction ==
    [][(last'.ev = "ok" /\ IsNum(PyEval(Expr))) =>
           (IsIntegral(PyEval(Expr)) <=> ~HasPoint(Display'))]_vars

(***************************************************************************)
(* C8: "=" pressed again on the result r that a successful "=" left never   *)
(* fails and leaves display and expression equal to the same r.             *)
(***************************************************************************)
C8_ReEvaluationIdempotent ==
    [][(Status = "result" /\ EqualsHandled) =>
           /\ last'.ev = "ok"
           /\ Display' = Display
           /\ Expr' = Display]_vars

(***************************************************************************)
(* C9: fed the same actions (a character both have a button for, "=", "C"), *)
(* the two programs hold the same expression after every step, and so hand  *)
(* the same string to eval() on every "=".                                  *)
(***************************************************************************)
C9_SameExpression ==
    gui = "both" => CalculatorApp.expression = Calculator.expression

(***************************************************************************)
(* C10: every string an event appends to the expression is one character of *)
(* 0-9 . + - * / ( ), and a keyboard event whose key is none of these       *)
(* characters, Enter, Backspace or Delete leaves expression and display     *)
(* unchanged.                                                               *)
(***************************************************************************)
C10_OnlyValidCharacters ==
    [][/\ InputHandled => Len(last'.data) = 1 /\ last'.data[1] \in ValidChars
       /\ ( /\ last'.src = "key"
            /\ last'.key \notin {<<c>> : c \in ValidChars}
            /\ last'.key \notin {StrEnter, StrBackspace, StrDelete} )
          => (Expr' = Expr /\ Display' = Display)]_vars

====
